---- MODULE Spec2Model ----
(***************************************************************************)
(* Model of the gateway API monitor: the schema diff engine                *)
(* (app/services/diff_engine.py), the change classifier                    *)
(* (app/services/ai_analyzer.py), the snapshot store (app/models/models.py)*)
(* and the multi-tier monitoring orchestrator                              *)
(* (app/services/monitoring_service.py) with its callers (app/main.py,     *)
(* app/scheduler/scheduler.py).                                            *)
(***************************************************************************)
EXTENDS Integers, Sequences, FiniteSets, TLC

VARIABLES
    snapshots,    \* rows of table "snapshots", in insertion order
    changes,      \* rows of table "changes", in insertion order
    tasks,        \* the requests / scheduled jobs in flight, with their locals
    hashOrder,    \* iteration order of a Python set of str in this process
    d_old,        \* DiffEngine.compare_schemas: argument old_schema
    d_new,        \* DiffEngine.compare_schemas: argument new_schema
    d_changes,    \* DiffEngine.compare_schemas: returned list
    d_pc,         \* "ready" before the call, "done" after it
    k_change,     \* AIAnalyzer.categorize_change: argument change
    k_category,   \* AIAnalyzer.categorize_change: returned category
    q_snaps,      \* _get_latest_snapshot: the rows of table "snapshots"
    q_tier,       \* _get_latest_snapshot: argument spec_type
    q_result,     \* _get_latest_snapshot: returned row, or NoSnapshot
    q_pc          \* "ready" before the query, "done" after it

vars ==
    <<snapshots, changes, tasks, hashOrder, d_old, d_new, d_changes, d_pc,
      k_change, k_category, q_snaps, q_tier, q_result, q_pc>>

-----------------------------------------------------------------------------
(* Python values *)

\* Python None where a str, a bool or a list is expected
None == "None"

\* Python None where a schema document (dict) is expected
NoDoc == [none |-> TRUE]

\* dict.get(key, default)
Get(d, k, default) == IF k \in DOMAIN d THEN d[k] ELSE default

RECURSIVE Concat(_)
\* list.extend over a list of lists
Concat(ss) == IF ss = <<>> THEN <<>> ELSE Head(ss) \o Concat(Tail(ss))

\* the set of the elements of a list: set(list)
ToSet(s) == {s[i] : i \in 1..Len(s)}

\* iteration over a set of str: the elements, in this process's hash order
IterSet(S, order) == SelectSeq(order, LAMBDA n : n \in S)

-----------------------------------------------------------------------------
(* Schema documents.  A dict is a list of (key, value) items in insertion   *)
(* order; the documents have the keys "properties" and "required".          *)

Names == {"amount", "customer"}

Types == {"integer", "string"}

Descriptions == {"", "d"}

Enums == {<<"a", "b">>, <<"b", "a">>, <<"a", "b", "c">>, <<"c">>}

\* field definitions of the first field: type, description and optional enum
RichDefs ==
    [type : Types, description : Descriptions]
      \cup [type : Types, description : Descriptions, enum : Enums]

\* field definitions of the second field: a type only
PlainDefs == [type : Types]

DefsOf(n) == IF n = "amount" THEN RichDefs ELSE PlainDefs

Item(n, fd) == [name |-> n, def |-> fd]

\* the "properties" dicts over Names, in either insertion order
PropertyDicts ==
    {<<>>}
      \cup {<<Item(n, fd)>> : n \in Names, fd \in RichDefs \cup PlainDefs}
      \cup {<<Item("amount", f1), Item("customer", f2)>> :
                f1 \in RichDefs, f2 \in PlainDefs}
      \cup {<<Item("customer", f2), Item("amount", f1)>> :
                f1 \in RichDefs, f2 \in PlainDefs}

WellFormed(props) == \A i \in 1..Len(props) : props[i].def \in DefsOf(props[i].name)

RequiredLists == {<<>>, <<"amount">>, <<"customer">>, <<"amount", "customer">>}

Docs ==
    {[properties |-> p, required |-> r] :
        p \in {q \in PropertyDicts : WellFormed(q)}, r \in RequiredLists}

\* the orders in which a set of the names can be iterated
HashOrders == {<<"amount", "customer">>, <<"customer", "amount">>}

\* prop_name in props
HasKey(props, n) == \E i \in 1..Len(props) : props[i].name = n

\* props[prop_name]
Lookup(props, n) == props[CHOOSE i \in 1..Len(props) : props[i].name = n].def

\* props.keys()
Keys(props) == [i \in 1..Len(props) |-> props[i].name]


-----------------------------------------------------------------------------
(* DiffEngine (app/services/diff_engine.py) *)

Change(change_type, field_path, old_value, new_value, severity) ==
    [change_type |-> change_type, field_path |-> field_path,
     old_value |-> old_value, new_value |-> new_value, severity |-> severity]

\* DiffEngine._determine_severity
determine_severity(change_type, prop_def) ==
    IF change_type = "added" THEN "low"
    ELSE IF change_type = "removed" THEN "high"
    ELSE "medium"

\* added_properties without the test "if prop_name not in old_props"
added_properties_all(old_props, new_props) ==
    [i \in 1..Len(new_props) |->
        Change("property_added", "properties." \o new_props[i].name,
               None, new_props[i].def,
               determine_severity("added", new_props[i].def))]

\* compare_schemas, "Find new properties"
added_properties(old_props, new_props) ==
    LET sel == SelectSeq(new_props, LAMBDA it : ~HasKey(old_props, it.name))
    IN  [i \in 1..Len(sel) |->
            Change("property_added", "properties." \o sel[i].name,
                   None, sel[i].def, determine_severity("added", sel[i].def))]

\* compare_schemas, "Find removed properties"
removed_properties(old_props, new_props) ==
    LET sel == SelectSeq(old_props, LAMBDA it : ~HasKey(new_props, it.name))
    IN  [i \in 1..Len(sel) |->
            Change("property_removed", "properties." \o sel[i].name,
                   sel[i].def, None, "high")]

\* type_changes with the severity taken from _determine_severity
type_changes_medium(prop_name, old_prop, new_prop) ==
    LET old_type == Get(old_prop, "type", None)
        new_type == Get(new_prop, "type", None)
    IN  IF old_type # new_type
        THEN <<Change("type_changed", "properties." \o prop_name \o ".type",
                      old_type, new_type,
                      determine_severity("type_changed", new_prop))>>
        ELSE <<>>

\* DiffEngine._compare_property, "Check type changes"
type_changes(prop_name, old_prop, new_prop) ==
    LET old_type == Get(old_prop, "type", None)
        new_type == Get(new_prop, "type", None)
    IN  IF old_type # new_type
        THEN <<Change("type_changed", "properties." \o prop_name \o ".type",
                      old_type, new_type, "high")>>
        ELSE <<>>

\* description_changes with the default "" given to one of the two lookups only
description_changes_default(prop_name, old_prop, new_prop) ==
    LET old_desc == Get(old_prop, "description", "")
        new_desc == Get(new_prop, "description", None)
    IN  IF old_desc # new_desc
        THEN <<Change("description_changed",
                      "properties." \o prop_name \o ".description",
                      old_desc, new_desc, "info")>>
        ELSE <<>>

\* DiffEngine._compare_property, "Check description changes"
description_changes(prop_name, old_prop, new_prop) ==
    LET old_desc == Get(old_prop, "description", "")
        new_desc == Get(new_prop, "description", "")
    IN  IF old_desc # new_desc
        THEN <<Change("description_changed",
                      "properties." \o prop_name \o ".description",
                      old_desc, new_desc, "info")>>
        ELSE <<>>

\* enum_changes with "elif removed_values" for "if removed_values"
enum_changes_elif(prop_name, old_prop, new_prop) ==
    LET old_enum == Get(old_prop, "enum", <<>>)
        new_enum == Get(new_prop, "enum", <<>>)
        added_values == ToSet(new_enum) \ ToSet(old_enum)
        removed_values == ToSet(old_enum) \ ToSet(new_enum)
    IN  IF old_enum # new_enum
        THEN IF added_values # {}
             THEN <<Change("enum_values_added",
                           "properties." \o prop_name \o ".enum",
                           old_enum, new_enum, "low")>>
             ELSE IF removed_values # {}
             THEN <<Change("enum_values_removed",
                           "properties." \o prop_name \o ".enum",
                           old_enum, new_enum, "medium")>>
             ELSE <<>>
        ELSE <<>>

\* DiffEngine._compare_property, "Check enum changes"
enum_changes(prop_name, old_prop, new_prop) ==
    LET old_enum == Get(old_prop, "enum", <<>>)
        new_enum == Get(new_prop, "enum", <<>>)
        added_values == ToSet(new_enum) \ ToSet(old_enum)
        removed_values == ToSet(old_enum) \ ToSet(new_enum)
    IN  IF old_enum # new_enum
        THEN (IF added_values # {}
              THEN <<Change("enum_values_added",
                            "properties." \o prop_name \o ".enum",
                            old_enum, new_enum, "low")>>
              ELSE <<>>)
             \o
             (IF removed_values # {}
              THEN <<Change("enum_values_removed",
                            "properties." \o prop_name \o ".enum",
                            old_enum, new_enum, "medium")>>
              ELSE <<>>)
        ELSE <<>>

\* compare_property that returns at the first attribute that changed
compare_property_first(prop_name, old_prop, new_prop) ==
    IF type_changes(prop_name, old_prop, new_prop) # <<>>
    THEN type_changes(prop_name, old_prop, new_prop)
    ELSE IF description_changes(prop_name, old_prop, new_prop) # <<>>
    THEN description_changes(prop_name, old_prop, new_prop)
    ELSE enum_changes(prop_name, old_prop, new_prop)

\* DiffEngine._compare_property
compare_property(prop_name, old_prop, new_prop) ==
    type_changes(prop_name, old_prop, new_prop)
      \o description_changes(prop_name, old_prop, new_prop)
      \o enum_changes(prop_name, old_prop, new_prop)

\* modified_properties over the keys of the new document
modified_properties_new(old_props, new_props) ==
    LET sel == SelectSeq(Keys(new_props), LAMBDA n : HasKey(old_props, n))
    IN  Concat([i \in 1..Len(sel) |->
                   compare_property(sel[i], Lookup(old_props, sel[i]),
                                    Lookup(new_props, sel[i]))])

\* compare_schemas, "Find modified properties"
modified_properties(old_props, new_props) ==
    LET sel == SelectSeq(Keys(old_props), LAMBDA n : HasKey(new_props, n))
    IN  Concat([i \in 1..Len(sel) |->
                   compare_property(sel[i], Lookup(old_props, sel[i]),
                                    Lookup(new_props, sel[i]))])

\* now_required over new_required instead of new_required - old_required
now_required_all(old_required, new_required, order) ==
    LET sel == IterSet(new_required, order)
    IN  [i \in 1..Len(sel) |->
            Change("field_now_required", "required." \o sel[i],
                   FALSE, TRUE, "high")]

\* compare_schemas, "New required fields"
now_required(old_required, new_required, order) ==
    LET sel == IterSet(new_required \ old_required, order)
    IN  [i \in 1..Len(sel) |->
            Change("field_now_required", "required." \o sel[i],
                   FALSE, TRUE, "high")]

\* no_longer_required with the set difference taken the wrong way round
no_longer_required_swapped(old_required, new_required, order) ==
    LET sel == IterSet(new_required \ old_required, order)
    IN  [i \in 1..Len(sel) |->
            Change("field_no_longer_required", "required." \o sel[i],
                   TRUE, FALSE, "low")]

\* compare_schemas, "Fields no longer required"
no_longer_required(old_required, new_required, order) ==
    LET sel == IterSet(old_required \ new_required, order)
    IN  [i \in 1..Len(sel) |->
            Change("field_no_longer_required", "required." \o sel[i],
                   TRUE, FALSE, "low")]

\* DiffEngine.compare_schemas raises AttributeError: None has no .get
compare_raises(old_schema, new_schema) ==
    old_schema = NoDoc \/ new_schema = NoDoc

\* DiffEngine.compare_schemas, on two dicts; order is the iteration order
\* of the sets of required names
compare_schemas(old_schema, new_schema, order) ==
    LET old_props == Get(old_schema, "properties", <<>>)
        new_props == Get(new_schema, "properties", <<>>)
        old_required == ToSet(Get(old_schema, "required", <<>>))
        new_required == ToSet(Get(new_schema, "required", <<>>))
    IN  added_properties(old_props, new_props)
          \o removed_properties(old_props, new_props)
          \o modified_properties(old_props, new_props)
          \o now_required(old_required, new_required, order)
          \o no_longer_required(old_required, new_required, order)

-----------------------------------------------------------------------------
(* AIAnalyzer (app/services/ai_analyzer.py) *)

\* no change dictionary
NoChange == [none |-> TRUE]

\* categorize_change whose table lookup falls back to "enhancement"
categorize_change_fallback(change) ==
    LET change_type == Get(change, "change_type", "")
    IN  CASE change_type = "property_added" -> "enhancement"
          [] change_type = "property_removed" -> "breaking_change"
          [] change_type = "type_changed" -> "breaking_change"
          [] change_type = "field_now_required" -> "breaking_change"
          [] change_type = "field_no_longer_required" -> "enhancement"
          [] change_type = "enum_values_added" -> "enhancement"
          [] change_type = "enum_values_removed" -> "breaking_change"
          [] change_type = "description_changed" -> "documentation"
          [] OTHER -> "enhancement"

\* AIAnalyzer.categorize_change
categorize_change(change) ==
    LET change_type == Get(change, "change_type", "")
    IN  CASE change_type = "property_added" -> "enhancement"
          [] change_type = "property_removed" -> "breaking_change"
          [] change_type = "type_changed" -> "breaking_change"
          [] change_type = "field_now_required" -> "breaking_change"
          [] change_type = "field_no_longer_required" -> "enhancement"
          [] change_type = "enum_values_added" -> "enhancement"
          [] change_type = "enum_values_removed" -> "breaking_change"
          [] change_type = "description_changed" -> "documentation"
          [] OTHER -> "other"

\* AIAnalyzer.analyze_change returns the model's text, or None when the
\* call fails: the outcomes of one call
Summaries == {"summary", None}

\* the outcomes of the analyze_change calls made for a list of n changes
SummaryChoices(n) == [1..n -> Summaries]

-----------------------------------------------------------------------------
(* Snapshot store (app/models/models.py) *)

\* SpecType
Tiers == {"stable", "preview", "beta"}

\* ChangeMaturity
ChangeMaturity ==
    {"stable_change", "preview_to_stable", "beta_to_preview",
     "new_preview", "new_beta"}

\* the result of a query that finds no row
NoSnapshot == [none |-> TRUE]

\* no value returned: the call raised
NoResult == [none |-> TRUE]

\* StripeCrawler.SPEC_URLS[spec_type]
SPEC_URLS(spec_type) == "spec_url." \o spec_type

\* Snapshot(...): the row as inserted; the primary key and created_at are
\* set at insertion, one after the other
Snapshot(id, spec_type, schema_data) ==
    [id |-> id, gateway |-> "stripe", endpoint_path |-> "/v1/payment_intents",
     spec_type |-> spec_type, spec_url |-> SPEC_URLS(spec_type),
     schema_data |-> schema_data, created_at |-> id]

\* get_latest_snapshot with created_at ascending: the oldest of the key
get_latest_snapshot_oldest(snaps, spec_type) ==
    LET rows == {i \in 1..Len(snaps) :
                    /\ snaps[i].gateway = "stripe"
                    /\ snaps[i].endpoint_path = "/v1/payment_intents"
                    /\ snaps[i].spec_type = spec_type}
    IN  IF rows = {} THEN NoSnapshot
        ELSE snaps[CHOOSE i \in rows :
                      \A j \in rows : snaps[i].created_at <= snaps[j].created_at]

\* get_latest_snapshot without the filter on spec_type
get_latest_snapshot_any(snaps, spec_type) ==
    LET rows == {i \in 1..Len(snaps) :
                    /\ snaps[i].gateway = "stripe"
                    /\ snaps[i].endpoint_path = "/v1/payment_intents"}
    IN  IF rows = {} THEN NoSnapshot
        ELSE snaps[CHOOSE i \in rows :
                      \A j \in rows : snaps[j].created_at <= snaps[i].created_at]

\* MonitoringService._get_latest_snapshot
get_latest_snapshot(snaps, spec_type) ==
    LET rows == {i \in 1..Len(snaps) :
                    /\ snaps[i].gateway = "stripe"
                    /\ snaps[i].endpoint_path = "/v1/payment_intents"
                    /\ snaps[i].spec_type = spec_type}
    IN  IF rows = {} THEN NoSnapshot
        ELSE snaps[CHOOSE i \in rows :
                      \A j \in rows : snaps[j].created_at <= snaps[i].created_at]

\* the rows "order_by(Snapshot.created_at.desc()).first()" may return for
\* the key: the query names no second sort key, so among the rows of the
\* key that share the greatest created_at the database returns any one
latest_candidates(snaps, spec_type) ==
    LET rows == {i \in 1..Len(snaps) :
                    /\ snaps[i].gateway = "stripe"
                    /\ snaps[i].endpoint_path = "/v1/payment_intents"
                    /\ snaps[i].spec_type = spec_type}
    IN  IF rows = {} THEN {NoSnapshot}
        ELSE {snaps[i] : i \in {i \in rows :
                 \A j \in rows : snaps[j].created_at <= snaps[i].created_at}}

\* change_maturity that grades the changes of the pre-release tiers
change_maturity_graded(spec_type) ==
    IF spec_type = "stable" THEN "stable_change"
    ELSE IF spec_type = "preview" THEN "new_preview" ELSE "new_beta"

\* _monitor_tier: "ChangeMaturity.STABLE_CHANGE if spec_type == 'stable'
\* else None"
change_maturity(spec_type) ==
    IF spec_type = "stable" THEN "stable_change" ELSE None

\* change_record that stores the default severity for every change
change_record_medium(snapshot_id, change_data, spec_type, ai_summary) ==
    [snapshot_id |-> snapshot_id,
     change_type |-> change_data.change_type,
     field_path |-> change_data.field_path,
     old_value |-> Get(change_data, "old_value", None),
     new_value |-> Get(change_data, "new_value", None),
     severity |-> "medium",
     change_category |-> categorize_change(change_data),
     change_maturity |-> change_maturity(spec_type),
     ai_summary |-> ai_summary]

\* Change(...) as built in MonitoringService._monitor_tier
change_record(snapshot_id, change_data, spec_type, ai_summary) ==
    [snapshot_id |-> snapshot_id,
     change_type |-> change_data.change_type,
     field_path |-> change_data.field_path,
     old_value |-> Get(change_data, "old_value", None),
     new_value |-> Get(change_data, "new_value", None),
     severity |-> Get(change_data, "severity", "medium"),
     change_category |-> categorize_change(change_data),
     change_maturity |-> change_maturity(spec_type),
     ai_summary |-> ai_summary]

-----------------------------------------------------------------------------
(* MonitoringService (app/services/monitoring_service.py) *)

\* the documents the crawler returns in this model
FetchDocs ==
    {[properties |-> <<Item("amount", [type |-> "integer", description |-> ""])>>,
      required |-> <<"amount">>],
     [properties |-> <<Item("amount", [type |-> "integer", description |-> ""]),
                       Item("customer", [type |-> "string"])>>,
      required |-> <<"amount", "customer">>]}

\* StripeCrawler.get_payment_intents_snapshot: the extracted document, or
\* None when the fetch or the extraction failed (the exception is caught and
\* logged); the tier only selects the URL that is fetched
FetchOutcomes == FetchDocs \cup {NoDoc}

\* tier_changes with the first capture compared against an empty document
tier_changes_first(snaps, spec_type, current_schema, order) ==
    LET previous_snapshot == get_latest_snapshot(snaps, spec_type)
    IN  IF previous_snapshot = NoSnapshot
        THEN compare_schemas([properties |-> <<>>, required |-> <<>>],
                             current_schema, order)
        ELSE IF compare_raises(previous_snapshot.schema_data, current_schema)
        THEN <<>>
        ELSE compare_schemas(previous_snapshot.schema_data, current_schema, order)

\* the list the differ returns in _monitor_tier, <<>> when it is not reached
tier_changes(snaps, spec_type, current_schema, order) ==
    LET previous_snapshot == get_latest_snapshot(snaps, spec_type)
    IN  IF previous_snapshot = NoSnapshot
           \/ compare_raises(previous_snapshot.schema_data, current_schema)
        THEN <<>>
        ELSE compare_schemas(previous_snapshot.schema_data, current_schema, order)

\* the value _monitor_tier returns
tier_result(spec_type, snapshot_id, changes_detected) ==
    [spec_type |-> spec_type, snapshot_id |-> snapshot_id,
     changes_count |-> Len(changes_detected), changes |-> changes_detected]

\* add_snapshot that overwrites the latest snapshot of the tier, if any
add_snapshot_replace(snaps, new_snapshot) ==
    IF \E i \in 1..Len(snaps) : snaps[i].spec_type = new_snapshot.spec_type
    THEN LET i == CHOOSE i \in 1..Len(snaps) :
                      snaps[i].spec_type = new_snapshot.spec_type
         IN  [snaps EXCEPT ![i] = new_snapshot]
    ELSE Append(snaps, new_snapshot)

\* _monitor_tier: "self.db.add(new_snapshot)", committed
add_snapshot(snaps, new_snapshot) ==
    Append(snaps, new_snapshot)

\* change_records whose rows carry the key of a snapshot never flushed
change_records_unflushed(snapshot_id, diff, spec_type, summaries) ==
    [i \in 1..Len(diff) |-> change_record(0, diff[i], spec_type, summaries[i])]

\* change_records that skips a change whose summary is None
change_records_skip(snapshot_id, diff, spec_type, summaries) ==
    LET kept == SelectSeq([i \in 1..Len(diff) |-> i],
                          LAMBDA i : summaries[i] # None)
    IN  [k \in 1..Len(kept) |->
            change_record(snapshot_id, diff[kept[k]], spec_type,
                          summaries[kept[k]])]

\* _monitor_tier, "Analyze and save changes": one Change per change of the
\* differ, with the summary analyze_change returned for it
change_records(snapshot_id, diff, spec_type, summaries) ==
    [i \in 1..Len(diff) |->
        change_record(snapshot_id, diff[i], spec_type, summaries[i])]

\* MonitoringService._monitor_tier from the return of the fetch on:
\* commit1 and commit2 tell whether the first and the second db.commit()
\* succeed, summaries holds the outcomes of the analyze_change calls
monitor_tier(snaps, chgs, spec_type, current_schema, commit1, commit2, summaries, order) ==
    LET previous_snapshot == get_latest_snapshot(snaps, spec_type)
        new_snapshot == Snapshot(Len(snaps) + 1, spec_type, current_schema)
        stored == add_snapshot(snaps, new_snapshot)
        diff == tier_changes(snaps, spec_type, current_schema, order)
        records == change_records(new_snapshot.id, diff, spec_type, summaries)
        locals == [current_schema |-> current_schema,
                   previous_snapshot |-> previous_snapshot]
    IN  IF ~commit1
        THEN [snapshots |-> snaps, changes |-> chgs, raised |-> "commit",
              new_snapshot |-> NoSnapshot, result |-> NoResult] @@ locals
        ELSE IF previous_snapshot # NoSnapshot
                /\ compare_raises(previous_snapshot.schema_data, current_schema)
        THEN [snapshots |-> stored, changes |-> chgs, raised |-> "AttributeError",
              new_snapshot |-> new_snapshot, result |-> NoResult] @@ locals
        ELSE IF previous_snapshot # NoSnapshot /\ ~commit2
        THEN [snapshots |-> stored, changes |-> chgs, raised |-> "commit",
              new_snapshot |-> new_snapshot, result |-> NoResult] @@ locals
        ELSE [snapshots |-> stored, changes |-> chgs \o records, raised |-> None,
              new_snapshot |-> new_snapshot,
              result |-> tier_result(spec_type, new_snapshot.id, diff)] @@ locals

\* snapshot.schema_data; on None the attribute access raises, as the
\* differ does on a None document
schema_data(snapshot) ==
    IF snapshot = NoSnapshot THEN NoDoc ELSE snapshot.schema_data

\* missing_snapshots with "and" for "or"
missing_snapshots_both(source_snapshot, target_snapshot) ==
    source_snapshot = NoSnapshot /\ target_snapshot = NoSnapshot

\* _compare_tiers: "if not source_snapshot or not target_snapshot"
missing_snapshots(source_snapshot, target_snapshot) ==
    source_snapshot = NoSnapshot \/ target_snapshot = NoSnapshot

\* tier_diff with the two documents exchanged
tier_diff_swapped(source_snapshot, target_snapshot, order) ==
    compare_schemas(schema_data(source_snapshot), schema_data(target_snapshot),
                    order)

\* _compare_tiers: the differ call
tier_diff(source_snapshot, target_snapshot, order) ==
    compare_schemas(schema_data(target_snapshot), schema_data(source_snapshot),
                    order)

\* _compare_tiers: the differ call raises
tier_diff_raises(source_snapshot, target_snapshot) ==
    compare_raises(schema_data(target_snapshot), schema_data(source_snapshot))

\* the list the differ returns in _compare_tiers, <<>> when it is not reached
comparison_changes(snaps, source_tier, target_tier, order) ==
    LET source_snapshot == get_latest_snapshot(snaps, source_tier)
        target_snapshot == get_latest_snapshot(snaps, target_tier)
    IN  IF missing_snapshots(source_snapshot, target_snapshot)
           \/ tier_diff_raises(source_snapshot, target_snapshot)
        THEN <<>>
        ELSE tier_diff(source_snapshot, target_snapshot, order)

\* tier_maturity with the two tags exchanged
tier_maturity_swapped(source_tier) ==
    IF source_tier = "preview" THEN "new_beta" ELSE "new_preview"

\* _compare_tiers: "Categorize by maturity"
tier_maturity(source_tier) ==
    IF source_tier = "preview" THEN "new_preview" ELSE "new_beta"

\* _compare_tiers: the timeline of an analyzed change
tier_timeline(source_tier) ==
    IF source_tier = "preview" THEN "4-10 weeks" ELSE "Unknown"

\* _compare_tiers: the "error" result
MissingSnapshots == [error |-> "Missing snapshots for comparison"]

\* MonitoringService._compare_tiers
compare_tiers(snaps, source_tier, target_tier, summaries, order) ==
    LET source_snapshot == get_latest_snapshot(snaps, source_tier)
        target_snapshot == get_latest_snapshot(snaps, target_tier)
        diff == tier_diff(source_snapshot, target_snapshot, order)
        analyzed_changes ==
            [i \in 1..Len(diff) |->
                [change |-> diff[i], maturity |-> tier_maturity(source_tier),
                 ai_summary |-> summaries[i],
                 timeline |-> tier_timeline(source_tier)]]
        locals == [source_tier |-> source_tier, target_tier |-> target_tier,
                   source_snapshot |-> source_snapshot,
                   target_snapshot |-> target_snapshot]
    IN  IF missing_snapshots(source_snapshot, target_snapshot)
        THEN [raised |-> None, differ_called |-> FALSE,
              result |-> MissingSnapshots] @@ locals
        ELSE IF tier_diff_raises(source_snapshot, target_snapshot)
        THEN [raised |-> "AttributeError", differ_called |-> TRUE,
              result |-> NoResult] @@ locals
        ELSE [raised |-> None, differ_called |-> TRUE,
              result |-> [comparison |-> source_tier \o "_vs_" \o target_tier,
                          upcoming_features_count |-> Len(analyzed_changes),
                          changes |-> analyzed_changes]] @@ locals

-----------------------------------------------------------------------------
(* The callers: scheduled_monitoring_job (app/scheduler/scheduler.py),      *)
(* POST /monitor/run and GET /monitor/compare (app/main.py)                 *)

\* the requests and jobs that can be in flight together
Tasks == {1, 2}

\* the tasks that run when the scheduler and the callers serialize the triggers
Serial == {1}

\* the store holds at most this many snapshots
MaxSnapshots == 3

\* a tier name outside SpecType, as a caller may send it
BadTier == "gamma"

\* no call of _monitor_tier made yet
NoCall == [none |-> TRUE]

Idle ==
    [kind |-> "idle", pc |-> "idle", tier |-> None, current |-> None,
     results |-> <<>>, monitor |-> NoCall, compares |-> <<>>,
     status |-> 0, detail |-> None]

\* NextTier of a run that goes through the preview tier again
NextTier_again(spec_type) ==
    CASE spec_type = "stable" -> "preview"
      [] spec_type = "preview" -> "preview"
      [] OTHER -> None

\* NextTier of a run that leaves out the beta tier
NextTier_short(spec_type) ==
    CASE spec_type = "stable" -> "preview"
      [] OTHER -> None

\* run_monitoring: the tier monitored after spec_type, None after the last
NextTier(spec_type) ==
    CASE spec_type = "stable" -> "preview"
      [] spec_type = "preview" -> "beta"
      [] OTHER -> None

Entry(key, value) == [key |-> key, value |-> value]

\* the locals of a _monitor_tier call that a task keeps
MonitorLocals(spec_type, m) ==
    [spec_type |-> spec_type, current_schema |-> m.current_schema,
     previous_snapshot |-> IF m.previous_snapshot = NoSnapshot THEN 0
                           ELSE m.previous_snapshot.id,
     new_snapshot |-> IF m.new_snapshot = NoSnapshot THEN 0
                      ELSE m.new_snapshot.id,
     raised |-> m.raised, result |-> m.result]

\* the locals of a _compare_tiers call that a task keeps
CompareLocals(c) ==
    [source_tier |-> c.source_tier, target_tier |-> c.target_tier,
     source_snapshot |-> IF c.source_snapshot = NoSnapshot THEN 0
                         ELSE c.source_snapshot.id,
     target_snapshot |-> IF c.target_snapshot = NoSnapshot THEN 0
                         ELSE c.target_snapshot.id,
     differ_called |-> c.differ_called, raised |-> c.raised,
     result |-> c.result]

\* an exception leaves the handler: POST /monitor/run and GET
\* /monitor/compare answer 500, the scheduled job logs the error
Raised(t, detail) ==
    [t EXCEPT !.pc = "raised", !.current = None, !.results = <<>>,
              !.status = IF t.kind = "job" THEN 0 ELSE 500,
              !.detail = detail]

\* scheduled_monitoring_job starts and awaits the fetch of the stable tier
StartJob(p) ==
    /\ tasks[p].pc = "idle"
    /\ tasks' = [tasks EXCEPT ![p] =
                    [Idle EXCEPT !.kind = "job", !.pc = "fetching",
                                 !.current = "stable"]]
    /\ UNCHANGED <<snapshots, changes, hashOrder, d_old, d_new, d_changes, d_pc,
                 k_change, k_category, q_snaps, q_tier, q_result, q_pc>>

\* POST /monitor/run, up to the first fetch
StartRun(p, tier) ==
    /\ tasks[p].pc = "idle"
    /\ tasks' = [tasks EXCEPT ![p] =
          IF tier = None
          THEN [Idle EXCEPT !.kind = "run", !.pc = "fetching",
                            !.current = "stable"]
          ELSE IF tier \notin Tiers
          THEN Raised([Idle EXCEPT !.kind = "run", !.tier = tier],
                      "400: Invalid tier. Must be stable, preview, or beta")
          ELSE [Idle EXCEPT !.kind = "run", !.pc = "fetching", !.tier = tier,
                            !.current = tier]]
    /\ UNCHANGED <<snapshots, changes, hashOrder, d_old, d_new, d_changes, d_pc,
                 k_change, k_category, q_snaps, q_tier, q_result, q_pc>>

\* run_monitoring after the three cycles: the two tier comparisons and the
\* return of the report
Comparisons(t, snaps, s1, s2, order) ==
    LET pvs == compare_tiers(snaps, "preview", "stable", s1, order)
        bvs == compare_tiers(snaps, "beta", "stable", s2, order)
    IN  IF pvs.raised # None
        THEN Raised([t EXCEPT !.compares = <<CompareLocals(pvs)>>], pvs.raised)
        ELSE IF bvs.raised # None
        THEN Raised([t EXCEPT !.compares = <<CompareLocals(pvs), CompareLocals(bvs)>>],
                    bvs.raised)
        ELSE [t EXCEPT !.pc = "done", !.current = None, !.status = 200,
                       !.compares = <<CompareLocals(pvs), CompareLocals(bvs)>>,
                       !.results = t.results
                                     \o <<Entry("preview_vs_stable", pvs.result),
                                          Entry("beta_vs_stable", bvs.result)>>]

\* the fetch awaited by _monitor_tier returns and the caller runs on to its
\* next await or to its end
FetchReturn(p) ==
    LET t == tasks[p]
    IN  /\ t.pc = "fetching"
        /\ Len(snapshots) < MaxSnapshots
        /\ \E current_schema \in FetchOutcomes, commit1, commit2 \in BOOLEAN :
             \E summaries \in SummaryChoices(
                     Len(tier_changes(snapshots, t.current, current_schema, hashOrder))) :
               LET m == monitor_tier(snapshots, changes, t.current, current_schema,
                                     commit1, commit2, summaries, hashOrder)
                   t1 == [t EXCEPT !.monitor = MonitorLocals(t.current, m)]
                   t2 == [t1 EXCEPT !.results = t.results
                                        \o <<Entry(t.current, m.result)>>]
               IN  /\ snapshots' = m.snapshots
                   /\ changes' = m.changes
                   /\ IF m.raised # None
                      THEN tasks' = [tasks EXCEPT ![p] = Raised(t1, m.raised)]
                      ELSE IF t.tier # None
                      THEN tasks' = [tasks EXCEPT ![p] =
                               [t2 EXCEPT !.pc = "done", !.current = None,
                                          !.status = 200]]
                      ELSE IF NextTier(t.current) # None
                      THEN tasks' = [tasks EXCEPT ![p] =
                               [t2 EXCEPT !.current = NextTier(t.current)]]
                      ELSE \E s1 \in SummaryChoices(Len(comparison_changes(
                                       m.snapshots, "preview", "stable", hashOrder))),
                              s2 \in SummaryChoices(Len(comparison_changes(
                                       m.snapshots, "beta", "stable", hashOrder))) :
                             tasks' = [tasks EXCEPT ![p] =
                                 Comparisons(t2, m.snapshots, s1, s2, hashOrder)]
        /\ UNCHANGED <<hashOrder, d_old, d_new, d_changes, d_pc,
                     k_change, k_category, q_snaps, q_tier, q_result, q_pc>>

\* GET /monitor/compare that saves the changes it found as Change rows
Compare_saving(p, source, target) ==
    /\ tasks[p].pc = "idle"
    /\ source \in {"preview", "beta"}
    /\ target \in {"stable", "preview"}
    /\ \E summaries \in SummaryChoices(Len(comparison_changes(
                              snapshots, source, target, hashOrder))) :
          LET c == compare_tiers(snapshots, source, target, summaries, hashOrder)
              t == [Idle EXCEPT !.kind = "compare",
                                !.compares = <<CompareLocals(c)>>]
              diff == comparison_changes(snapshots, source, target, hashOrder)
          IN  /\ c.raised = None
              /\ tasks' = [tasks EXCEPT ![p] =
                      [t EXCEPT !.pc = "done", !.status = 200,
                                !.results = <<Entry("compare", c.result)>>]]
              /\ changes' = changes \o change_records(Len(snapshots), diff,
                                                      source, summaries)
    /\ UNCHANGED <<snapshots, hashOrder, d_old, d_new, d_changes, d_pc,
                   k_change, k_category, q_snaps, q_tier, q_result, q_pc>>

\* GET /monitor/compare, the whole handler
Compare(p, source, target) ==
    /\ tasks[p].pc = "idle"
    /\ LET t == [Idle EXCEPT !.kind = "compare"]
       IN  IF source \notin {"preview", "beta"}
           THEN tasks' = [tasks EXCEPT ![p] =
                    Raised(t, "400: Source must be preview or beta")]
           ELSE IF target \notin {"stable", "preview"}
           THEN tasks' = [tasks EXCEPT ![p] =
                    Raised(t, "400: Target must be stable or preview")]
           ELSE \E summaries \in SummaryChoices(Len(comparison_changes(
                                     snapshots, source, target, hashOrder))) :
                  LET c == compare_tiers(snapshots, source, target, summaries,
                                         hashOrder)
                      t1 == [t EXCEPT !.compares = <<CompareLocals(c)>>]
                  IN  tasks' = [tasks EXCEPT ![p] =
                          IF c.raised # None THEN Raised(t1, c.raised)
                          ELSE [t1 EXCEPT !.pc = "done", !.status = 200,
                                          !.results = <<Entry("compare", c.result)>>]]
    /\ UNCHANGED <<snapshots, changes, hashOrder, d_old, d_new, d_changes, d_pc,
                 k_change, k_category, q_snaps, q_tier, q_result, q_pc>>

\* the response is sent, or the job returns: the task can serve again
Return(p) ==
    /\ tasks[p].pc \in {"done", "raised"}
    /\ tasks' = [tasks EXCEPT ![p] = Idle]
    /\ UNCHANGED <<snapshots, changes, hashOrder, d_old, d_new, d_changes, d_pc,
                 k_change, k_category, q_snaps, q_tier, q_result, q_pc>>

Init ==
    /\ snapshots = <<>>
    /\ changes = <<>>
    /\ tasks = [p \in Tasks |-> Idle]
    /\ hashOrder \in HashOrders
    /\ d_old = NoDoc
    /\ d_new = NoDoc
    /\ d_changes = <<>>
    /\ d_pc = "off"
    /\ k_change = NoChange
    /\ k_category = None
    /\ q_snaps = <<>>
    /\ q_tier = None
    /\ q_result = NoSnapshot
    /\ q_pc = "off"

Next ==
    \/ \E p \in Serial : StartJob(p)
    \/ \E p \in Serial, tier \in Tiers \cup {None, BadTier} : StartRun(p, tier)
    \/ \E p \in Serial : FetchReturn(p)
    \/ \E p \in Serial, source \in Tiers, target \in Tiers \cup {BadTier} :
          Compare(p, source, target)
    \/ \E p \in Serial : Return(p)

Spec == Init /\ [][Next]_vars

-----------------------------------------------------------------------------
(* compare_schemas applied to every pair of documents of Docs *)

DiffInit ==
    /\ snapshots = <<>>
    /\ changes = <<>>
    /\ tasks = [p \in Tasks |-> Idle]
    /\ hashOrder \in HashOrders
    /\ d_old \in Docs
    /\ d_new \in Docs
    /\ d_changes = <<>>
    /\ d_pc = "ready"
    /\ k_change = NoChange
    /\ k_category = None
    /\ q_snaps = <<>>
    /\ q_tier = None
    /\ q_result = NoSnapshot
    /\ q_pc = "off"

DiffCompare ==
    /\ d_pc = "ready"
    /\ d_changes' = compare_schemas(d_old, d_new, hashOrder)
    /\ d_pc' = "done"
    /\ UNCHANGED <<snapshots, changes, tasks, hashOrder, d_old, d_new,
                 k_change, k_category, q_snaps, q_tier, q_result, q_pc>>

DiffNext == DiffCompare

DiffSpec == DiffInit /\ [][DiffNext]_vars

-----------------------------------------------------------------------------
(* Properties of compare_schemas, checked under DiffSpec *)

\* the names of the fields of a document
PropertyNames(doc) == ToSet(Keys(Get(doc, "properties", <<>>)))

\* the required set of a document
RequiredNames(doc) == ToSet(Get(doc, "required", <<>>))

\* the number of changes of a list with this change_type and field_path
CountOf(chgs, change_type, field_path) ==
    Cardinality({i \in 1..Len(chgs) :
                    /\ chgs[i].change_type = change_type
                    /\ chgs[i].field_path = field_path})

\* C1: comparing a schema document with itself returns the empty list of
\* changes.
C1_Reflexive ==
    (d_pc = "done" /\ d_old = d_new) => d_changes = <<>>

C1_Witness ==
    /\ d_pc = "done"
    /\ d_old = d_new
    /\ Len(d_old.properties) = 2
    /\ \E i \in 1..2 : "enum" \in DOMAIN d_old.properties[i].def
    /\ d_old.required # <<>>
    /\ d_changes = <<>>

\* C2: every field name in new.properties but not in old.properties appears
\* in exactly one property_added change, every field name in old.properties
\* but not in new.properties appears in exactly one property_removed change,
\* and no property_added or property_removed change names any other field.
C2_AddedRemovedExactlyOnce ==
    d_pc = "done" =>
        /\ \A n \in Names :
             /\ CountOf(d_changes, "property_added", "properties." \o n)
                  = IF n \in PropertyNames(d_new) \ PropertyNames(d_old)
                    THEN 1 ELSE 0
             /\ CountOf(d_changes, "property_removed", "properties." \o n)
                  = IF n \in PropertyNames(d_old) \ PropertyNames(d_new)
                    THEN 1 ELSE 0
        /\ \A i \in 1..Len(d_changes) :
             d_changes[i].change_type \in {"property_added", "property_removed"}
                => \E n \in Names : d_changes[i].field_path = "properties." \o n

C2_Witness ==
    /\ d_pc = "done"
    /\ PropertyNames(d_old) = {"amount"}
    /\ PropertyNames(d_new) = {"customer"}
    /\ CountOf(d_changes, "property_added", "properties.customer") = 1
    /\ CountOf(d_changes, "property_removed", "properties.amount") = 1

\* the field name a field path addresses under a prefix
NameAt(field_path, prefix) ==
    CHOOSE n \in Names : field_path = prefix \o n

\* one emitted change applied to a pair (property names, required names)
ApplyChange(st, c) ==
    CASE c.change_type = "property_added" ->
            [st EXCEPT !.props = @ \cup {NameAt(c.field_path, "properties.")}]
      [] c.change_type = "property_removed" ->
            [st EXCEPT !.props = @ \ {NameAt(c.field_path, "properties.")}]
      [] c.change_type = "field_now_required" ->
            [st EXCEPT !.required = @ \cup {NameAt(c.field_path, "required.")}]
      [] c.change_type = "field_no_longer_required" ->
            [st EXCEPT !.required = @ \ {NameAt(c.field_path, "required.")}]
      [] OTHER -> st

RECURSIVE ApplyChanges(_, _)
\* the emitted changes applied in order
ApplyChanges(st, chgs) ==
    IF chgs = <<>> THEN st
    ELSE ApplyChanges(ApplyChange(st, Head(chgs)), Tail(chgs))

\* C3: round trip: old's property-name set and required set with the
\* emitted changes applied are new's property-name set and required set.
C3_RoundTrip ==
    d_pc = "done" =>
        ApplyChanges([props |-> PropertyNames(d_old),
                      required |-> RequiredNames(d_old)], d_changes)
          = [props |-> PropertyNames(d_new), required |-> RequiredNames(d_new)]

C3_Witness ==
    /\ d_pc = "done"
    /\ PropertyNames(d_old) = {"amount"}
    /\ PropertyNames(d_new) = {"customer"}
    /\ RequiredNames(d_old) = {"amount"}
    /\ RequiredNames(d_new) = {"customer"}
    /\ Len(d_changes) = 4

-----------------------------------------------------------------------------
(* Properties of the orchestrator, checked under Spec *)

\* the stored Change records of a snapshot
ChangesOf(id) == SelectSeq(changes, LAMBDA c : c.snapshot_id = id)

\* the changes the differ computes in the cycle whose locals are m
ComputedChanges(m) ==
    IF m.previous_snapshot = 0 THEN <<>>
    ELSE IF compare_raises(snapshots[m.previous_snapshot].schema_data,
                           m.current_schema)
    THEN <<>>
    ELSE compare_schemas(snapshots[m.previous_snapshot].schema_data,
                         m.current_schema, hashOrder)

\* the task runs all tiers: the scheduled job, or POST /monitor/run
\* without a tier
FullRun(t) == t.kind \in {"job", "run"} /\ t.tier = None

\* C4: after a cycle has ended, by its return or by a persistence failure,
\* either the new snapshot and all the Change records computed for it are
\* stored, or neither the snapshot nor any of its Change records is.
C4_AllOrNothing ==
    \A p \in Tasks :
        LET m == tasks[p].monitor
        IN  m # NoCall =>
              \/ /\ m.new_snapshot \in 1..Len(snapshots)
                 /\ Len(ChangesOf(m.new_snapshot)) = Len(ComputedChanges(m))
                 /\ \A i \in 1..Len(ComputedChanges(m)) :
                      /\ ChangesOf(m.new_snapshot)[i].change_type
                           = ComputedChanges(m)[i].change_type
                      /\ ChangesOf(m.new_snapshot)[i].field_path
                           = ComputedChanges(m)[i].field_path
              \/ /\ m.new_snapshot = 0
                 /\ \A i \in 1..Len(changes) :
                      changes[i].snapshot_id \in 1..Len(snapshots)

\* C5: in a run of all tiers, a fetch failure in one tier's cycle (the store
\* being available) does not end the run before the other tiers' cycles, and
\* the report holds an error entry for the tier whose fetch failed.
C5_ErrorIsolation ==
    \A p \in Tasks :
        LET t == tasks[p]
        IN  (/\ FullRun(t)
             /\ t.monitor # NoCall
             /\ t.monitor.current_schema = NoDoc
             /\ t.monitor.raised # "commit")
              => /\ t.pc # "raised"
                 /\ \E i \in 1..Len(t.results) :
                      /\ t.results[i].key = t.monitor.spec_type
                      /\ "error" \in DOMAIN t.results[i].value

\* C6: a tier cycle whose fetch fails appends no snapshot and no Change
\* record.
C6_FailedFetchKeepsLineage ==
    [][\A p \in Tasks :
          (/\ tasks[p].pc = "fetching"
           /\ tasks'[p] # tasks[p]
           /\ tasks'[p].monitor.current_schema = NoDoc)
            => (snapshots' = snapshots /\ changes' = changes)]_vars

\* C7: a cycle that finds no prior snapshot of its tier, and whose commit
\* succeeds, does not raise: it appends exactly one snapshot, of its tier,
\* persists no Change record and reports a change count of 0.
C7_FirstCycle ==
    [][\A p \in Tasks :
          (/\ tasks[p].pc = "fetching"
           /\ tasks'[p] # tasks[p]
           /\ get_latest_snapshot(snapshots, tasks[p].current) = NoSnapshot
           /\ tasks'[p].monitor.raised # "commit")
            => /\ tasks'[p].monitor.raised = None
               /\ Len(snapshots') = Len(snapshots) + 1
               /\ SubSeq(snapshots', 1, Len(snapshots)) = snapshots
               /\ snapshots'[Len(snapshots')].spec_type = tasks[p].current
               /\ changes' = changes
               /\ tasks'[p].monitor.result.changes_count = 0
               /\ tasks'[p].monitor.result.changes = <<>>]_vars

C7_Witness ==
    \E p \in Tasks :
        LET m == tasks[p].monitor
        IN  /\ m # NoCall
            /\ m.previous_snapshot = 0
            /\ m.raised = None
            /\ m.new_snapshot = Len(snapshots)
            /\ m.current_schema \in FetchDocs
            /\ m.result.changes_count = 0
            /\ ChangesOf(m.new_snapshot) = <<>>

\* C8: a tier comparison that finds no snapshot of the source tier or of the
\* target tier returns the missing-data result, which holds no change list,
\* and does not call the differ.
C8_MissingData ==
    \A p \in Tasks :
        \A i \in 1..Len(tasks[p].compares) :
            LET c == tasks[p].compares[i]
            IN  (c.source_snapshot = 0 \/ c.target_snapshot = 0)
                  => /\ c.raised = None
                     /\ c.result = MissingSnapshots
                     /\ "changes" \notin DOMAIN c.result
                     /\ ~c.differ_called

C8_Witness ==
    \E p \in Tasks :
        \E i \in 1..Len(tasks[p].compares) :
            LET c == tasks[p].compares[i]
            IN  /\ c.source_snapshot # 0
                /\ c.target_snapshot = 0
                /\ c.target_tier = "stable"
                /\ c.result = MissingSnapshots

\* the comparisons a task has made that returned a list of changes
Compared(p) ==
    {i \in 1..Len(tasks[p].compares) :
        "changes" \in DOMAIN tasks[p].compares[i].result}

\* the changes of a comparison result, without their annotations
RawChanges(result) ==
    [i \in 1..Len(result.changes) |-> result.changes[i].change]

\* C9: a tier comparison reads the latest snapshot of each tier and gives
\* the differ the target tier's document as old and the source tier's
\* document as new: a field of the source document that the target document
\* lacks is reported once as property_added and never as property_removed.
C9_TargetIsOld ==
    \A p \in Tasks :
        \A i \in Compared(p) :
            LET c == tasks[p].compares[i]
                source == snapshots[c.source_snapshot]
                target == snapshots[c.target_snapshot]
                raw == RawChanges(c.result)
            IN  /\ source = get_latest_snapshot(snapshots, c.source_tier)
                /\ target = get_latest_snapshot(snapshots, c.target_tier)
                /\ raw = compare_schemas(target.schema_data, source.schema_data,
                                         hashOrder)
                /\ \A n \in PropertyNames(source.schema_data)
                              \ PropertyNames(target.schema_data) :
                      /\ CountOf(raw, "property_added", "properties." \o n) = 1
                      /\ CountOf(raw, "property_removed", "properties." \o n) = 0

C9_Witness ==
    \E p \in Tasks :
        \E i \in Compared(p) :
            LET c == tasks[p].compares[i]
            IN  /\ "customer" \in PropertyNames(snapshots[c.source_snapshot].schema_data)
                /\ "customer" \notin PropertyNames(snapshots[c.target_snapshot].schema_data)
                /\ CountOf(RawChanges(c.result), "property_added",
                           "properties.customer") = 1

\* C10: every change of a tier-comparison result carries maturity
\* new_preview and timeline "4-10 weeks" when the source tier is preview,
\* maturity new_beta and timeline "Unknown" otherwise, and the upcoming
\* count is the number of changes of the result.
C10_MaturityAndTimeline ==
    \A p \in Tasks :
        \A i \in Compared(p) :
            LET c == tasks[p].compares[i]
            IN  /\ c.result.upcoming_features_count = Len(c.result.changes)
                /\ \A j \in 1..Len(c.result.changes) :
                      IF c.source_tier = "preview"
                      THEN /\ c.result.changes[j].maturity = "new_preview"
                           /\ c.result.changes[j].timeline = "4-10 weeks"
                      ELSE /\ c.result.changes[j].maturity = "new_beta"
                           /\ c.result.changes[j].timeline = "Unknown"

C10_Witness ==
    \E p \in Tasks :
        /\ Len(tasks[p].compares) = 2
        /\ Compared(p) = {1, 2}
        /\ tasks[p].compares[1].source_tier = "preview"
        /\ tasks[p].compares[2].source_tier = "beta"
        /\ \A i \in {1, 2} : tasks[p].compares[i].result.upcoming_features_count = 2

\* C11: a request that names a tier or a tier pair outside the valid set
\* is rejected before any fetch or store access, and is answered as a caller
\* error (status 400), not as an internal failure (status 500).
C11_CallerError ==
    \A p \in Tasks :
        LET t == tasks[p]
        IN  (\/ t.kind = "run" /\ t.tier = BadTier
             \/ t.kind = "compare" /\ t.pc = "raised" /\ t.compares = <<>>)
              => /\ t.monitor = NoCall
                 /\ t.compares = <<>>
                 /\ t.status = 400

\* C12: whatever analyze_change returns for each change, the cycle stores
\* one Change record per change of the differ, in order, with the differ's
\* change_type, field_path and severity and the category of its type, each
\* with the summary returned for it or none, and reports them all; a tier
\* comparison reports every change of the differ likewise.
C12_SummaryFailureAbsorbed ==
    \A p \in Tasks :
        LET m == tasks[p].monitor
        IN  /\ (m # NoCall /\ m.raised = None) =>
                  /\ Len(ChangesOf(m.new_snapshot)) = Len(ComputedChanges(m))
                  /\ m.result.changes = ComputedChanges(m)
                  /\ \A i \in 1..Len(ComputedChanges(m)) :
                       LET r == ChangesOf(m.new_snapshot)[i]
                           c == ComputedChanges(m)[i]
                       IN  /\ r.change_type = c.change_type
                           /\ r.field_path = c.field_path
                           /\ r.severity = c.severity
                           /\ r.change_category = categorize_change(c)
                           /\ r.ai_summary \in Summaries
            /\ \A i \in Compared(p) :
                  LET c == tasks[p].compares[i]
                  IN  /\ Len(c.result.changes)
                           = Len(compare_schemas(
                                   snapshots[c.target_snapshot].schema_data,
                                   snapshots[c.source_snapshot].schema_data,
                                   hashOrder))
                      /\ \A j \in 1..Len(c.result.changes) :
                            c.result.changes[j].ai_summary \in Summaries

C12_Witness ==
    \E p \in Tasks :
        LET m == tasks[p].monitor
        IN  /\ m # NoCall
            /\ m.raised = None
            /\ Len(ChangesOf(m.new_snapshot)) = 2
            /\ ChangesOf(m.new_snapshot)[1].ai_summary = None
            /\ ChangesOf(m.new_snapshot)[2].ai_summary = "summary"
            /\ m.result.changes_count = 2

-----------------------------------------------------------------------------
(* Further properties of compare_schemas, checked under DiffSpec *)

\* C13: for the same two documents compare_schemas returns the same
\* sequence of changes, in the same order, on every invocation: the result
\* does not depend on the order in which the process iterates a set of names.
C13_Deterministic ==
    d_pc = "done" =>
        \A order \in HashOrders :
            d_changes = compare_schemas(d_old, d_new, order)

\* the fields present in both documents
CommonNames == PropertyNames(d_old) \cap PropertyNames(d_new)

\* the value a field definition of a document gives to a key
AttrOf(doc, n, key, default) == Get(Lookup(doc.properties, n), key, default)

\* the values the new enum of a field adds to the old one
EnumAdded(n) ==
    ToSet(AttrOf(d_new, n, "enum", <<>>)) \ ToSet(AttrOf(d_old, n, "enum", <<>>))

\* the values the new enum of a field drops from the old one
EnumRemoved(n) ==
    ToSet(AttrOf(d_old, n, "enum", <<>>)) \ ToSet(AttrOf(d_new, n, "enum", <<>>))

\* C14: for a field present in both documents, one enum_values_added (of
\* severity low) is emitted exactly when the new enum holds a value the old
\* one lacks, and one enum_values_removed (of severity medium) exactly when
\* the old enum holds a value the new one lacks: both when both hold, none
\* when the enums are equal as sets; no other field gets an enum change.
C14_EnumChanges ==
    d_pc = "done" =>
        /\ \A n \in Names :
             /\ CountOf(d_changes, "enum_values_added",
                        "properties." \o n \o ".enum")
                  = IF n \in CommonNames /\ EnumAdded(n) # {} THEN 1 ELSE 0
             /\ CountOf(d_changes, "enum_values_removed",
                        "properties." \o n \o ".enum")
                  = IF n \in CommonNames /\ EnumRemoved(n) # {} THEN 1 ELSE 0
        /\ \A i \in 1..Len(d_changes) :
             /\ d_changes[i].change_type = "enum_values_added"
                  => d_changes[i].severity = "low"
             /\ d_changes[i].change_type = "enum_values_removed"
                  => d_changes[i].severity = "medium"

C14_Witness ==
    /\ d_pc = "done"
    /\ "amount" \in CommonNames
    /\ AttrOf(d_old, "amount", "enum", <<>>) = <<"a", "b">>
    /\ AttrOf(d_new, "amount", "enum", <<>>) = <<"a", "b", "c">>
    /\ CountOf(d_changes, "enum_values_added", "properties.amount.enum") = 1
    /\ CountOf(d_changes, "enum_values_removed", "properties.amount.enum") = 0

\* the number of changes emitted for the attributes of a field
FieldChangeCount(n) ==
    Cardinality({i \in 1..Len(d_changes) :
                    d_changes[i].field_path
                      \in {"properties." \o n \o ".type",
                           "properties." \o n \o ".description",
                           "properties." \o n \o ".enum"}})

\* the type, the description and the enum (as a set) of a common field
\* all differ between the two documents
AllChanged(n) ==
    /\ n \in CommonNames
    /\ AttrOf(d_old, n, "type", None) # AttrOf(d_new, n, "type", None)
    /\ AttrOf(d_old, n, "description", "") # AttrOf(d_new, n, "description", "")
    /\ (EnumAdded(n) # {} \/ EnumRemoved(n) # {})

\* C15 as claimed: a common field whose type, description and enum have all
\* changed yields exactly three Change records.
C15_ExactlyThree ==
    d_pc = "done" =>
        \A n \in Names : AllChanged(n) => FieldChangeCount(n) = 3

\* C15 as amended: such a field yields one type_changed, one
\* description_changed, one enum_values_added if values were added and one
\* enum_values_removed if values were removed, each a record of its own:
\* three records, or four when the enum both gained and lost values.
C15_OnePerChange ==
    d_pc = "done" =>
        \A n \in Names :
            AllChanged(n) =>
              /\ CountOf(d_changes, "type_changed",
                         "properties." \o n \o ".type") = 1
              /\ CountOf(d_changes, "description_changed",
                         "properties." \o n \o ".description") = 1
              /\ FieldChangeCount(n)
                   = 2 + (IF EnumAdded(n) # {} THEN 1 ELSE 0)
                       + (IF EnumRemoved(n) # {} THEN 1 ELSE 0)
              /\ FieldChangeCount(n) \in {3, 4}

C15_Witness ==
    /\ d_pc = "done"
    /\ AllChanged("amount")
    /\ EnumAdded("amount") # {}
    /\ EnumRemoved("amount") = {}
    /\ FieldChangeCount("amount") = 3

\* C16: field_now_required (severity high) is emitted exactly once for each
\* name in new.required but not in old.required and for no other name,
\* field_no_longer_required (severity low) exactly once for each name in
\* old.required but not in new.required and for no other name, whatever the
\* properties are; a field that is added and newly required yields a
\* property_added at properties.<name> and a field_now_required at
\* required.<name>.
C16_RequiredChanges ==
    d_pc = "done" =>
        /\ \A n \in Names :
             /\ CountOf(d_changes, "field_now_required", "required." \o n)
                  = IF n \in RequiredNames(d_new) \ RequiredNames(d_old)
                    THEN 1 ELSE 0
             /\ CountOf(d_changes, "field_no_longer_required", "required." \o n)
                  = IF n \in RequiredNames(d_old) \ RequiredNames(d_new)
                    THEN 1 ELSE 0
             /\ (/\ n \in PropertyNames(d_new) \ PropertyNames(d_old)
                 /\ n \in RequiredNames(d_new) \ RequiredNames(d_old))
                  => /\ CountOf(d_changes, "property_added", "properties." \o n) = 1
                     /\ CountOf(d_changes, "field_now_required", "required." \o n) = 1
                     /\ "properties." \o n # "required." \o n
        /\ \A i \in 1..Len(d_changes) :
             /\ d_changes[i].change_type = "field_now_required"
                  => /\ d_changes[i].severity = "high"
                     /\ \E n \in Names : d_changes[i].field_path = "required." \o n
             /\ d_changes[i].change_type = "field_no_longer_required"
                  => /\ d_changes[i].severity = "low"
                     /\ \E n \in Names : d_changes[i].field_path = "required." \o n

C16_Witness ==
    /\ d_pc = "done"
    /\ PropertyNames(d_old) = {"amount"}
    /\ PropertyNames(d_new) = {"amount", "customer"}
    /\ d_old.required = <<"amount">>
    /\ d_new.required = <<"amount", "customer">>
    /\ CountOf(d_changes, "property_added", "properties.customer") = 1
    /\ CountOf(d_changes, "field_now_required", "required.customer") = 1
    /\ CountOf(d_changes, "field_now_required", "required.amount") = 0

\* the severity and the field path fixed for a change type and a field
ShapeOf(change_type, n) ==
    CASE change_type = "property_added" ->
            [severity |-> "low", field_path |-> "properties." \o n]
      [] change_type = "property_removed" ->
            [severity |-> "high", field_path |-> "properties." \o n]
      [] change_type = "type_changed" ->
            [severity |-> "high", field_path |-> "properties." \o n \o ".type"]
      [] change_type = "description_changed" ->
            [severity |-> "info",
             field_path |-> "properties." \o n \o ".description"]
      [] change_type = "enum_values_added" ->
            [severity |-> "low", field_path |-> "properties." \o n \o ".enum"]
      [] change_type = "enum_values_removed" ->
            [severity |-> "medium", field_path |-> "properties." \o n \o ".enum"]
      [] change_type = "field_now_required" ->
            [severity |-> "high", field_path |-> "required." \o n]
      [] change_type = "field_no_longer_required" ->
            [severity |-> "low", field_path |-> "required." \o n]

\* the change types compare_schemas emits
ChangeTypes ==
    {"property_added", "property_removed", "type_changed",
     "description_changed", "enum_values_added", "enum_values_removed",
     "field_now_required", "field_no_longer_required"}

\* C17: every change compare_schemas emits has one of the eight change
\* types, and the severity and the field-path shape fixed for that type.
C17_SeverityAndPath ==
    d_pc = "done" =>
        \A i \in 1..Len(d_changes) :
            /\ d_changes[i].change_type \in ChangeTypes
            /\ \E n \in Names :
                 /\ d_changes[i].severity
                      = ShapeOf(d_changes[i].change_type, n).severity
                 /\ d_changes[i].field_path
                      = ShapeOf(d_changes[i].change_type, n).field_path

C17_Witness ==
    /\ d_pc = "done"
    /\ {d_changes[i].change_type : i \in 1..Len(d_changes)}
         = {"type_changed", "description_changed", "enum_values_added",
            "enum_values_removed", "field_now_required",
            "field_no_longer_required"}

-----------------------------------------------------------------------------
(* categorize_change applied to every change dictionary of ClassifyInputs *)

\* the change-type tags given to categorize_change: the eight the differ
\* emits, tags it does not emit, the empty tag and None
ClassifyTags ==
    ChangeTypes \cup {"property_renamed", "PROPERTY_ADDED", "", None}

\* the change dictionaries given to categorize_change, with and without
\* the key "change_type"
ClassifyInputs ==
    [change_type : ClassifyTags,
     field_path : {"properties.amount", "properties.amount.type",
                   "required.amount"},
     severity : {"high", "medium", "low", "info"}]
    \cup
    [field_path : {"properties.amount", "properties.amount.type",
                   "required.amount"},
     severity : {"high", "medium", "low", "info"}]

ClassifyInit ==
    /\ snapshots = <<>>
    /\ changes = <<>>
    /\ tasks = [p \in Tasks |-> Idle]
    /\ hashOrder \in HashOrders
    /\ d_old = NoDoc
    /\ d_new = NoDoc
    /\ d_changes = <<>>
    /\ d_pc = "off"
    /\ k_change \in ClassifyInputs
    /\ k_category = None
    /\ q_snaps = <<>>
    /\ q_tier = None
    /\ q_result = NoSnapshot
    /\ q_pc = "off"

Classify ==
    /\ k_category = None
    /\ k_category' = categorize_change(k_change)
    /\ UNCHANGED <<snapshots, changes, tasks, hashOrder, d_old, d_new,
                   d_changes, d_pc, k_change, q_snaps, q_tier, q_result, q_pc>>

ClassifyNext == Classify

ClassifySpec == ClassifyInit /\ [][ClassifyNext]_vars

\* the tag of a change dictionary: the value under "change_type", or
\* "absent" when the dictionary has no such key
TagOf(change) ==
    IF "change_type" \in DOMAIN change THEN change.change_type ELSE "absent"

\* C18: the category categorize_change returns is fixed by the change type
\* alone: enhancement for property_added, field_no_longer_required and
\* enum_values_added; breaking_change for property_removed, type_changed,
\* field_now_required and enum_values_removed; documentation for
\* description_changed; other for every other tag and for an absent one.
\* The call always returns one of these four categories.
C18_CategoryByType ==
    k_category # None =>
        /\ k_category
             \in {"enhancement", "breaking_change", "documentation", "other"}
        /\ k_category = "enhancement"
             <=> TagOf(k_change) \in {"property_added",
                                      "field_no_longer_required",
                                      "enum_values_added"}
        /\ k_category = "breaking_change"
             <=> TagOf(k_change) \in {"property_removed", "type_changed",
                                      "field_now_required",
                                      "enum_values_removed"}
        /\ k_category = "documentation"
             <=> TagOf(k_change) = "description_changed"
        /\ k_category = "other"
             <=> TagOf(k_change) \notin ChangeTypes

C18_Witness ==
    /\ k_category = "other"
    /\ "change_type" \notin DOMAIN k_change
    /\ k_change.severity = "high"

-----------------------------------------------------------------------------
(* Properties of the stored rows, checked under Spec *)

\* the stored snapshot a change row points to
SnapshotOf(change) ==
    CHOOSE s \in ToSet(snapshots) : s.id = change.snapshot_id

\* C19: every stored change has maturity stable_change if its snapshot is
\* of the stable tier and no maturity otherwise; new_preview, new_beta,
\* preview_to_stable and beta_to_preview are never stored.
C19_Maturity ==
    \A i \in 1..Len(changes) :
        /\ \E s \in ToSet(snapshots) : s.id = changes[i].snapshot_id
        /\ changes[i].change_maturity
             = IF SnapshotOf(changes[i]).spec_type = "stable"
               THEN "stable_change" ELSE None
        /\ changes[i].change_maturity
             \notin {"new_preview", "new_beta", "preview_to_stable",
                     "beta_to_preview"}

C19_Witness ==
    /\ \E i \in 1..Len(changes) :
          /\ SnapshotOf(changes[i]).spec_type = "stable"
          /\ changes[i].change_maturity = "stable_change"
    /\ \E p \in Tasks : tasks[p].kind = "run" /\ tasks[p].pc = "done"

\* C20: no step removes or alters a stored snapshot: every snapshot stored
\* before a step is stored after it, at the same place, with the same
\* gateway key, tier and document.
C20_AppendOnly ==
    [][/\ Len(snapshots') >= Len(snapshots)
       /\ \A i \in 1..Len(snapshots) : snapshots'[i] = snapshots[i]]_vars

C20_Witness ==
    /\ Len(snapshots) = MaxSnapshots
    /\ snapshots[1].spec_type = snapshots[2].spec_type
    /\ snapshots[1].schema_data # snapshots[2].schema_data
    /\ \E p \in Tasks : tasks[p].kind = "compare" /\ tasks[p].compares # <<>>

C22_NoOrphan ==
    \A i \in 1..Len(changes) :
        \E j \in 1..Len(snapshots) : snapshots[j].id = changes[i].snapshot_id

C22_Witness ==
    /\ Len(changes) > 0
    /\ \E p \in Tasks :
          /\ tasks[p].monitor # NoCall
          /\ tasks[p].monitor.raised = "commit"
          /\ tasks[p].monitor.new_snapshot # 0
          /\ ChangesOf(tasks[p].monitor.new_snapshot) = <<>>

-----------------------------------------------------------------------------
(* _get_latest_snapshot applied to every store of QueryStores *)

\* the readings of the clock that created_at takes
MaxClock == 2

\* the store holds at most this many rows when queried
MaxRows == 3

\* a stored row with the clock reading it got at insertion
Row(id, spec_type, created_at) ==
    [Snapshot(id, spec_type, NoDoc) EXCEPT !.created_at = created_at]

\* the stores queried: rows in insertion order, of two tiers, whose
\* created_at never decreases and may repeat
QueryStores ==
    UNION {{[i \in 1..n |-> Row(i, tier[i], clock[i])] :
               tier \in [1..n -> {"stable", "preview"}],
               clock \in {c \in [1..n -> 1..MaxClock] :
                            \A i \in 1..n : \A j \in i..n : c[i] <= c[j]}} :
           n \in 0..MaxRows}

LatestInit ==
    /\ snapshots = <<>>
    /\ changes = <<>>
    /\ tasks = [p \in Tasks |-> Idle]
    /\ hashOrder \in HashOrders
    /\ d_old = NoDoc
    /\ d_new = NoDoc
    /\ d_changes = <<>>
    /\ d_pc = "off"
    /\ k_change = NoChange
    /\ k_category = None
    /\ q_snaps \in QueryStores
    /\ q_tier \in {"stable", "preview"}
    /\ q_result = NoSnapshot
    /\ q_pc = "ready"

LatestQuery ==
    /\ q_pc = "ready"
    /\ q_result' \in latest_candidates(q_snaps, q_tier)
    /\ q_pc' = "done"
    /\ UNCHANGED <<snapshots, changes, tasks, hashOrder, d_old, d_new,
                   d_changes, d_pc, k_change, k_category, q_snaps, q_tier>>

LatestNext == LatestQuery

LatestSpec == LatestInit /\ [][LatestNext]_vars

\* the places in the queried store of the rows of the queried tier
KeyRows == {i \in 1..Len(q_snaps) : q_snaps[i].spec_type = q_tier}

\* C23: the latest-snapshot query returns absent only when the key has no
\* row; otherwise it returns a row of the key with the greatest created_at
\* among the rows of the key, and of the rows sharing that created_at the
\* one inserted last.
C23_LatestQuery ==
    q_pc = "done" =>
        IF KeyRows = {} THEN q_result = NoSnapshot
        ELSE /\ q_result # NoSnapshot
             /\ q_result.id \in KeyRows
             /\ q_result = q_snaps[q_result.id]
             /\ \A j \in KeyRows :
                  \/ q_snaps[j].created_at < q_result.created_at
                  \/ /\ q_snaps[j].created_at = q_result.created_at
                     /\ j <= q_result.id

-----------------------------------------------------------------------------
(* Two requests POST /monitor/run?tier=... in flight together: both await  *)
(* their fetch, and each runs the rest of its cycle when its fetch returns *)

\* the stores the two requests find: empty, or one snapshot of one tier
RaceStores ==
    {<<>>} \cup {<<Snapshot(1, tier, doc)>> : tier \in Tiers, doc \in FetchDocs}

\* a request for one tier that awaits its fetch, as StartRun leaves it
Racing(tier) ==
    [Idle EXCEPT !.kind = "run", !.pc = "fetching", !.tier = tier,
                 !.current = tier]

RaceInit ==
    /\ snapshots \in RaceStores
    /\ changes = <<>>
    /\ tasks \in {[p \in Tasks |-> Racing(tier[p])] : tier \in [Tasks -> Tiers]}
    /\ hashOrder \in HashOrders
    /\ d_old = NoDoc
    /\ d_new = NoDoc
    /\ d_changes = <<>>
    /\ d_pc = "off"
    /\ k_change = NoChange
    /\ k_category = None
    /\ q_snaps = <<>>
    /\ q_tier = None
    /\ q_result = NoSnapshot
    /\ q_pc = "off"

RaceNext ==
    \/ \E p \in Tasks : FetchReturn(p)
    \/ \E p \in Tasks : Return(p)

RaceSpec == RaceInit /\ [][RaceNext]_vars

\* the snapshots of a tier, in insertion order
Lineage(snaps, tier) == SelectSeq(snaps, LAMBDA s : s.spec_type = tier)

\* the change rows of the snapshots of a tier, in insertion order
LineageChanges(chgs, snaps, tier) ==
    SelectSeq(chgs, LAMBDA c : \E i \in 1..Len(snaps) :
                                  /\ snaps[i].id = c.snapshot_id
                                  /\ snaps[i].spec_type = tier)

\* the key of the last snapshot of a lineage, 0 for an empty lineage
LastId(lineage) == IF lineage = <<>> THEN 0 ELSE lineage[Len(lineage)].id

\* the changes a cycle stores that finds a lineage and fetches a document
OwnChanges(lineage, m) ==
    IF lineage = <<>> \/ m.raised # None THEN <<>>
    ELSE compare_schemas(lineage[Len(lineage)].schema_data, m.current_schema,
                         hashOrder)

\* C24: whatever the other requests have done in between, the part of a
\* cycle for tier T that follows its fetch reads the last snapshot of T's
\* own lineage, appends at most one snapshot, to T's lineage, holding the
\* fetched document, stores for it the changes between those two
\* documents, and leaves the lineage and the changes of every other tier
\* as they were: per tier the outcome is that of the cycles run one after
\* another.
C24_TierIndependence ==
    [][\A p \in Tasks :
          (tasks[p].pc = "fetching" /\ tasks'[p] # tasks[p]) =>
            LET T == tasks[p].current
                m == tasks'[p].monitor
                own == Lineage(snapshots, T)
                own2 == Lineage(snapshots', T)
                chg == LineageChanges(changes, snapshots, T)
                chg2 == LineageChanges(changes', snapshots', T)
                diff == OwnChanges(own, m)
            IN  /\ \A U \in Tiers \ {T} :
                     /\ Lineage(snapshots', U) = Lineage(snapshots, U)
                     /\ LineageChanges(changes', snapshots', U)
                          = LineageChanges(changes, snapshots, U)
                /\ m.previous_snapshot = LastId(own)
                /\ \/ own2 = own /\ m.new_snapshot = 0
                   \/ /\ Len(own2) = Len(own) + 1
                      /\ SubSeq(own2, 1, Len(own)) = own
                      /\ own2[Len(own2)].id = m.new_snapshot
                      /\ own2[Len(own2)].schema_data = m.current_schema
                /\ Len(chg2) = Len(chg) + Len(diff)
                /\ SubSeq(chg2, 1, Len(chg)) = chg
                /\ \A i \in 1..Len(diff) :
                     /\ chg2[Len(chg) + i].snapshot_id = m.new_snapshot
                     /\ chg2[Len(chg) + i].change_type = diff[i].change_type
                     /\ chg2[Len(chg) + i].field_path = diff[i].field_path]_vars

C24_Witness ==
    /\ tasks[1].pc = "done" /\ tasks[2].pc = "done"
    /\ tasks[1].monitor.spec_type = "stable"
    /\ tasks[2].monitor.spec_type = "preview"
    /\ tasks[1].monitor.previous_snapshot = 1
    /\ tasks[2].monitor.new_snapshot = 2
    /\ tasks[1].monitor.new_snapshot = 3
    /\ ChangesOf(3) # <<>>

\* the step of request p in which its cycle reads the same latest snapshot
\* as the cycle of request q has read, and appends its own
SiblingStep(p, q) ==
    /\ FetchReturn(p)
    /\ tasks'[p].monitor.new_snapshot # 0
    /\ tasks'[p].monitor.previous_snapshot = tasks[q].monitor.previous_snapshot

\* request q has appended a snapshot of the tier for which request p, in
\* flight since before, still awaits its fetch
Overlapped(p, q) ==
    /\ p # q
    /\ tasks[p].pc = "fetching"
    /\ tasks[q].monitor # NoCall
    /\ tasks[q].monitor.spec_type = tasks[p].current
    /\ tasks[q].monitor.new_snapshot # 0

-----------------------------------------------------------------------------
(* The order of the output of compare_schemas, checked under DiffSpec *)

\* the group of the output a change belongs to
GroupOf(change) ==
    CASE change.change_type = "property_added" -> 1
      [] change.change_type = "property_removed" -> 2
      [] change.change_type = "field_now_required" -> 4
      [] change.change_type = "field_no_longer_required" -> 5
      [] OTHER -> 3

\* the place of a modification among the modifications of one field
AttrRank(change) ==
    CASE change.change_type = "type_changed" -> 1
      [] change.change_type = "description_changed" -> 2
      [] change.change_type = "enum_values_added" -> 3
      [] OTHER -> 4

\* the field a modification is about
FieldOf(change) ==
    CHOOSE n \in Names :
        change.field_path \in {"properties." \o n \o ".type",
                               "properties." \o n \o ".description",
                               "properties." \o n \o ".enum"}

\* the place of a field in the iteration order of the old document
OldPlace(n) ==
    CHOOSE i \in 1..Len(Keys(d_old.properties)) : Keys(d_old.properties)[i] = n

\* C26: the output of compare_schemas lists the property_added changes,
\* then the property_removed changes, then the modifications, field by
\* field in the iteration order of the old document's properties and
\* within a field type, description, enum added, enum removed, then the
\* field_now_required changes, then the field_no_longer_required changes.
C26_OutputOrder ==
    d_pc = "done" =>
        \A i, j \in 1..Len(d_changes) :
            i < j =>
              /\ GroupOf(d_changes[i]) <= GroupOf(d_changes[j])
              /\ (GroupOf(d_changes[i]) = 3 /\ GroupOf(d_changes[j]) = 3)
                   => \/ OldPlace(FieldOf(d_changes[i]))
                           < OldPlace(FieldOf(d_changes[j]))
                      \/ /\ FieldOf(d_changes[i]) = FieldOf(d_changes[j])
                         /\ AttrRank(d_changes[i]) < AttrRank(d_changes[j])

C26_Witness ==
    /\ d_pc = "done"
    /\ Keys(d_old.properties) = <<"customer", "amount">>
    /\ Keys(d_new.properties) = <<"amount", "customer">>
    /\ Len(d_changes) = 6
    /\ d_changes[1].field_path = "properties.customer.type"
    /\ d_changes[2].field_path = "properties.amount.type"
    /\ d_changes[3].field_path = "properties.amount.description"
    /\ d_changes[4].change_type = "enum_values_added"
    /\ d_changes[5].change_type = "enum_values_removed"
    /\ d_changes[6].change_type \in {"field_now_required",
                                     "field_no_longer_required"}

-----------------------------------------------------------------------------
(* Further properties of the cycles and comparisons, checked under Spec *)

\* C27: a tier comparison appends no snapshot and stores no Change row,
\* whether it returns changes or the missing-data result: the request
\* GET /monitor/compare leaves both tables as they were, and the step of a
\* full run that ends with the two comparisons adds only the snapshot and
\* the changes of the cycle it has completed.
C27_ComparisonReadOnly ==
    [][\A p \in Tasks :
          /\ (tasks'[p] # tasks[p] /\ tasks'[p].kind = "compare")
               => (snapshots' = snapshots /\ changes' = changes)
          /\ (/\ tasks[p].pc = "fetching"
              /\ tasks'[p] # tasks[p]
              /\ tasks'[p].compares # <<>>)
               => /\ Len(snapshots') = Len(snapshots) + 1
                  /\ SubSeq(snapshots', 1, Len(snapshots)) = snapshots
                  /\ snapshots'[Len(snapshots')].id
                       = tasks'[p].monitor.new_snapshot
                  /\ snapshots'[Len(snapshots')].spec_type = "beta"
                  /\ Len(changes')
                       = Len(changes) + tasks'[p].monitor.result.changes_count
                  /\ SubSeq(changes', 1, Len(changes)) = changes
                  /\ \A i \in (Len(changes) + 1)..Len(changes') :
                       changes'[i].snapshot_id
                         = tasks'[p].monitor.new_snapshot]_vars

C27_Witness ==
    /\ tasks[1].kind = "compare"
    /\ tasks[1].pc = "done"
    /\ "upcoming_features_count" \in DOMAIN tasks[1].results[1].value
    /\ tasks[1].results[1].value.upcoming_features_count > 0
    /\ Len(snapshots) = 2
    /\ changes = <<>>

\* the key of the last snapshot of a tier stored before snapshot id
PriorOf(id, tier) ==
    LET ids == {i \in 1..(id - 1) : snapshots[i].spec_type = tier}
    IN  IF ids = {} THEN 0 ELSE CHOOSE i \in ids : \A j \in ids : j <= i

\* C28: for a cycle that has completed and found a prior snapshot, the
\* Change rows stored are the output of the differ on the document of the
\* latest prior snapshot of the tier and the document the cycle fetched:
\* as many, in the same order, with the same change_type, field_path and
\* severity; each references the snapshot the cycle appended, and the
\* reported count is their number.
C28_PersistedIsDiff ==
    \A p \in Tasks :
        LET m == tasks[p].monitor
        IN  (m # NoCall /\ m.raised = None /\ m.previous_snapshot # 0) =>
              LET diff == compare_schemas(
                              snapshots[PriorOf(m.new_snapshot, m.spec_type)].schema_data,
                              snapshots[m.new_snapshot].schema_data, hashOrder)
                  new_rows == SelectSeq(changes,
                                LAMBDA c : c.snapshot_id >= m.new_snapshot)
              IN  /\ m.previous_snapshot = PriorOf(m.new_snapshot, m.spec_type)
                  /\ snapshots[m.new_snapshot].schema_data = m.current_schema
                  /\ Len(new_rows) = Len(diff)
                  /\ \A i \in 1..Len(diff) :
                       /\ new_rows[i].snapshot_id = m.new_snapshot
                       /\ new_rows[i].change_type = diff[i].change_type
                       /\ new_rows[i].field_path = diff[i].field_path
                       /\ new_rows[i].severity = diff[i].severity
                  /\ m.result.changes_count = Len(new_rows)
                  /\ m.result.snapshot_id = m.new_snapshot

C28_Witness ==
    \E p \in Tasks :
        LET m == tasks[p].monitor
        IN  /\ m # NoCall
            /\ m.raised = None
            /\ m.previous_snapshot = 2
            /\ m.new_snapshot = 3
            /\ m.result.changes_count = 2
            /\ ChangesOf(3)[1].severity = "high"
            /\ ChangesOf(3)[2].severity = "low"

CycleKeys(t) ==
    {t.results[i].key : i \in 1..Len(t.results)} \cap Tiers

\* C30: a cycle that completes, with or without changes, appends exactly
\* one snapshot, to the lineage of its own tier; a run of all tiers fetches
\* once per tier and never again for a tier it has been through, so it
\* makes at most three cycles, and at most two comparisons.
C30_OneSnapshotPerCycle ==
    [][\A p \in Tasks :
          (tasks[p].pc = "fetching" /\ tasks'[p] # tasks[p]) =>
            LET t == tasks[p]
                t2 == tasks'[p]
                m == t2.monitor
            IN  /\ m.spec_type = t.current
                /\ m.raised = None
                     => /\ Len(snapshots') = Len(snapshots) + 1
                        /\ SubSeq(snapshots', 1, Len(snapshots)) = snapshots
                        /\ snapshots'[Len(snapshots')].id = m.new_snapshot
                        /\ snapshots'[Len(snapshots')].spec_type = t.current
                        /\ Len(Lineage(snapshots', t.current))
                             = Len(Lineage(snapshots, t.current)) + 1
                /\ Len(snapshots') <= Len(snapshots) + 1
                /\ t.current \notin CycleKeys(t)
                /\ t2.pc # "raised"
                     => /\ CycleKeys(t2) = CycleKeys(t) \cup {t.current}
                        /\ Cardinality({i \in 1..Len(t2.results) :
                                           t2.results[i].key \in Tiers})
                             = Cardinality(CycleKeys(t2))
                /\ Cardinality(CycleKeys(t2)) <= 3
                /\ Len(t2.compares) <= 2]_vars

C30_Witness ==
    /\ tasks[1].kind = "job"
    /\ tasks[1].pc = "done"
    /\ CycleKeys(tasks[1]) = Tiers
    /\ Len(tasks[1].compares) = 2
    /\ Len(snapshots) = 3
    /\ changes = <<>>

====
